---- MODULE Spec2Model ----
(***************************************************************************)
(* Nuesicgen: the melody generator (generateMelody), the Web Audio         *)
(* renderer (playMIDI), the container encoder (createSimpleMIDI) and the   *)
(* MusicGenerator component's handlers that call them.                     *)
(*                                                                         *)
(* Numbers.  The program computes in JavaScript numbers; the model computes *)
(* the same formulas exactly, in integers:                                 *)
(*   - a Math.random() result U is u/UDen with u in 0..UDen-1;             *)
(*   - creativity and rhythmVariety are in tenths (0.7 is 7);              *)
(*   - note durations and times are in ticks, TicksPerBeat ticks a beat,   *)
(*     chosen so that every duration the formulas yield is a whole number; *)
(*   - a duration in bars is dn/DurDen.                                    *)
(* NaN (and undefined, which the program only ever compares or adds) is    *)
(* the value NaN below, outside the range of every finite value.           *)
(***************************************************************************)
EXTENDS Integers, Sequences, FiniteSets, TLC

\* ------------------------------------------------------------ bounds
\* Resolution of the random source: Math.random() is u/UDen, u in 0..UDen-1.
UDen == 10
\* Resolution of the duration parameter: params.duration is dn/DurDen bars.
DurDen == 4
\* The most playMIDI invocations in a run.
MaxPlays == 2

\* ------------------------------------------------- program constants
NotesPerBar == 4
OctaveSemitones == 12
VelocityBase == 60
VelocitySpan == 40
DelayBase == 2000
DelaySpan == 2000

Max(a, b) == IF a >= b THEN a ELSE b
Min(a, b) == IF a <= b THEN a ELSE b

NaN == 0 - 1
IsNaN(x) == x = NaN

\* Ticks per beat: a multiple of 8 (0.125 beat), and of 4 * 2 * UDen * 100, the
\* denominator of baseDuration * (U - 0.5) * rhythmVariety * creativity.
TicksPerBeat == 800 * UDen
\* const baseDuration = 0.25
BaseDuration == TicksPerBeat \div 4
\* Math.max(0.125, ...)
MinDuration == TicksPerBeat \div 8

\* The values Math.random() takes in the model (numerators over UDen): the
\* least value, and the greatest, which is above the 0.8 octave threshold.
USet == {0, UDen - 1}

\* ------------------------------------------------------------ tables
scalePatterns ==
    [k \in {"C", "G", "D", "A", "Am", "Em", "Dm"} |->
        CASE k = "C"  -> <<60, 62, 64, 65, 67, 69, 71, 72>>
          [] k = "G"  -> <<67, 69, 71, 72, 74, 76, 78, 79>>
          [] k = "D"  -> <<62, 64, 66, 67, 69, 71, 73, 74>>
          [] k = "A"  -> <<69, 71, 73, 74, 76, 78, 80, 81>>
          [] k = "Am" -> <<69, 71, 72, 74, 76, 77, 79, 81>>
          [] k = "Em" -> <<64, 66, 67, 69, 71, 72, 74, 76>>
          [] k = "Dm" -> <<62, 64, 65, 67, 69, 70, 72, 74>>]

\* rhythmVariety in tenths.
genreSettings ==
    [g \in {"classical", "jazz", "electronic", "ambient", "minimalist", "baroque"} |->
        CASE g = "classical"  -> [jumpRange |-> 3, rhythmVariety |-> 3]
          [] g = "jazz"       -> [jumpRange |-> 5, rhythmVariety |-> 7]
          [] g = "electronic" -> [jumpRange |-> 6, rhythmVariety |-> 8]
          [] g = "ambient"    -> [jumpRange |-> 2, rhythmVariety |-> 2]
          [] g = "minimalist" -> [jumpRange |-> 1, rhythmVariety |-> 1]
          [] g = "baroque"    -> [jumpRange |-> 4, rhythmVariety |-> 4]]

\* Both tables are object literals, so table[name] also finds what every object
\* inherits from Object.prototype: a function (or, for __proto__, an object),
\* which is truthy and so defeats the `|| default`.
ObjectPrototypeNames ==
    {"constructor", "toString", "toLocaleString", "valueOf", "hasOwnProperty",
     "isPrototypeOf", "propertyIsEnumerable", "__proto__"}

\* An inherited member: not an array, no jumpRange, no rhythmVariety.
Inherited == [inherited |-> TRUE]

\* const scale = scalePatterns[key] || scalePatterns['C']
ResolveScaleFallbackG(key) ==
    IF key \in DOMAIN scalePatterns THEN scalePatterns[key]
    ELSE IF key \in ObjectPrototypeNames THEN Inherited
    ELSE scalePatterns["G"]

ResolveScale(key) ==
    IF key \in DOMAIN scalePatterns THEN scalePatterns[key]
    ELSE IF key \in ObjectPrototypeNames THEN Inherited
    ELSE scalePatterns["C"]

\* const settings = genreSettings[genre] || genreSettings.classical
ResolveSettingsFallbackJazz(genre) ==
    IF genre \in DOMAIN genreSettings THEN genreSettings[genre]
    ELSE IF genre \in ObjectPrototypeNames THEN Inherited
    ELSE genreSettings["jazz"]

ResolveSettings(genre) ==
    IF genre \in DOMAIN genreSettings THEN genreSettings[genre]
    ELSE IF genre \in ObjectPrototypeNames THEN Inherited
    ELSE genreSettings["classical"]

\* scale.indexOf(p): 0-based, -1 when absent (NaN and undefined are never found).
IndexOf(scale, p) ==
    IF \E j \in 1..Len(scale) : scale[j] = p
    THEN (CHOOSE j \in 1..Len(scale) :
              scale[j] = p /\ \A h \in 1..(j - 1) : scale[h] # p) - 1
    ELSE 0 - 1

\* scale[Math.floor(scale.length / 2)]; undefined for an inherited member.
MiddlePitch(scale) ==
    IF scale = Inherited THEN NaN ELSE scale[(Len(scale) \div 2) + 1]

\* ------------------------------------------------- one loop iteration
\* Math.floor((U - 0.5) * 2 * jumpRange * creativity), creativity c in tenths.
PitchVariationCeil(u, jumpRange, c) ==
    0 - (((UDen - 2 * u) * jumpRange * c) \div (UDen * 10))

PitchVariation(u, jumpRange, c) ==
    ((2 * u - UDen) * jumpRange * c) \div (UDen * 10)

\* Math.max(0, Math.min(scale.length - 1, scaleIndex + pitchVariation))
ClampIndexBelowOnly(scale, index) == Max(0, index)

ClampIndex(scale, index) == Max(0, Min(Len(scale) - 1, index))

\* Math.random() > 0.8 ? 12 : 0
OctaveJump(u) == IF u * 10 > 8 * UDen THEN OctaveSemitones ELSE 0

\* Math.max(0.125, baseDuration * (1 + (U - 0.5) * rhythmVariety * creativity)),
\* rhythmVariety rv and creativity c in tenths, the result in ticks.
NoteDuration(u, rv, c) ==
    Max(MinDuration,
        BaseDuration + ((2 * u - UDen) * rv * c * BaseDuration) \div (2 * UDen * 100))

\* Math.floor(60 + U * 40 * creativity)
VelocityDoubleSpan(u, c) == VelocityBase + (u * 2 * VelocitySpan * c) \div (UDen * 10)

Velocity(u, c) == VelocityBase + (u * VelocitySpan * c) \div (UDen * 10)

\* a + b of JavaScript numbers.
JsAdd(a, b) == IF IsNaN(a) \/ IsNaN(b) THEN NaN ELSE a + b

\* currentTime += duration
AdvanceByBase(time, duration) == JsAdd(time, BaseDuration)

Advance(time, duration) == JsAdd(time, duration)

\* scale[index]: undefined (NaN once added to) outside the array.
At(scale, index) ==
    IF index \in 0..(Len(scale) - 1) THEN scale[index + 1] ELSE NaN

\* if (scaleIndex === -1) scaleIndex = 0
BaseIndexMiddle(scale, found) == IF found = 0 - 1 THEN Len(scale) \div 2 ELSE found

BaseIndex(scale, found) == IF found = 0 - 1 THEN 0 ELSE found

\* The body of the for loop, from the loop state st = [currentTime, lastPitch,
\* notes] and the four Math.random() results d, in the order they are drawn.
\* With settings an inherited member, jumpRange and rhythmVariety are undefined
\* and the arithmetic on them is NaN.
Iteration(scale, settings, c, st, d) ==
    LET found == IndexOf(scale, st.lastPitch)
        base == BaseIndex(scale, found)
        scaleIndex == ClampIndex(scale, base + PitchVariation(d[1], settings.jumpRange, c))
        pitch == IF settings = Inherited THEN NaN
                 ELSE JsAdd(At(scale, scaleIndex), OctaveJump(d[2]))
        duration == IF settings = Inherited THEN NaN
                    ELSE NoteDuration(d[3], settings.rhythmVariety, c)
        note == [pitch |-> pitch, duration |-> duration,
                 velocity |-> Velocity(d[4], c), time |-> st.currentTime]
    IN  [currentTime |-> Advance(st.currentTime, duration),
         lastPitch |-> pitch,
         notes |-> Append(st.notes, note)]

\* i < noteCount, noteCount = duration * 4, duration = dn/DurDen.
LoopGuardInclusive(i, dn) == i * DurDen <= dn * NotesPerBar

LoopGuard(i, dn) == i * DurDen < dn * NotesPerBar

\* ------------------------------------------------------------- state
VARIABLES
    params,       \* generateMelody's argument
    gpc,          \* generateMelody's position: "delay", "loop", "returned", "rejected"
    i,            \* the loop counter
    currentTime,
    lastPitch,
    notes,
    rand,         \* the Math.random() results the loop has consumed, four a note
    midiData,     \* the bytes of the last Blob downloadMIDI made, <<>> before any
    currentMelody, \* MusicGenerator's state: the melody, or NoMelody for null
    isPlaying,    \* MusicGenerator's state
    isGenerating, \* MusicGenerator's state
    generateCalls, \* the number of generateMelody calls handleGenerate has made
    unresolved,   \* how many of them handleGenerate still awaits
    pendingMelody, \* the melody the 500 ms timer of handleGenerate will show
    audioRef,     \* audioRef.current, playMIDI's output target
    audioPaused,  \* the paused attribute of the audio element
    calls,        \* the playMIDI invocations, in the order they were made
    contexts,     \* the AudioContexts created
    voices,       \* the oscillators started, each with its start and stop time
    errorLog,     \* the number of console.error calls
    now           \* the audio clock

genVars == <<params, gpc, i, currentTime, lastPitch, notes, rand>>
playVars == <<currentMelody, isPlaying, audioRef, audioPaused, calls, contexts, voices, errorLog, now>>
uiVars == <<isGenerating, generateCalls, unresolved, pendingMelody>>
vars == <<genVars, midiData, uiVars, uiVars, playVars>>

\* null
NoMelody == [none |-> TRUE]
NoElement == "null"
AudioElement == "audio"

\* ------------------------------------------------------------ inputs
DurationInputs == {0 - DurDen, 0, 1, DurDen \div 2, DurDen}

Params(g, c, k, dn) ==
    [genre |-> g, creativity |-> c, tempo |-> 120, key |-> k, duration |-> dn]

\* genre, creativity (tenths), key
DeclaredInputs ==
    {<<"classical", 10, "C">>, <<"ambient", 5, "Am">>, <<"electronic", 10, "Em">>,
     <<"minimalist", 10, "G">>, <<"jazz", 1, "Dm">>, <<"baroque", 7, "A">>,
     <<"foo", 10, "D">>, <<"classical", 7, "Zz">>}

InheritedInputs ==
    {<<"classical", 10, "constructor">>, <<"constructor", 10, "C">>,
     <<"toString", 5, "__proto__">>}

\* handleGenerate has not been called, or is over.
UiIdle ==
    /\ isGenerating = FALSE
    /\ generateCalls = 0
    /\ unresolved = 0
    /\ pendingMelody = NoMelody

InitLoopState(p) ==
    /\ UiIdle
    /\ params = p
    /\ gpc = "delay"
    /\ i = 0
    /\ currentTime = 0
    /\ lastPitch = NaN
    /\ notes = <<>>
    /\ rand = <<>>
    /\ midiData = <<>>
    /\ currentMelody = NoMelody
    /\ isPlaying = FALSE
    /\ audioRef = AudioElement
    /\ audioPaused = TRUE
    /\ calls = <<>>
    /\ contexts = <<>>
    /\ voices = <<>>
    /\ errorLog = 0
    /\ now = 0

InitGen ==
    \E t \in DeclaredInputs, dn \in DurationInputs :
        InitLoopState(Params(t[1], t[2], t[3], dn))

InitGenAny ==
    \E t \in DeclaredInputs \cup InheritedInputs, dn \in DurationInputs :
        InitLoopState(Params(t[1], t[2], t[3], dn))

\* ----------------------------------------------------------- actions
\* playMIDI is in its forEach.
Scheduling == \E c \in 1..Len(calls) : calls[c].pc = "scheduling"

\* await new Promise(resolve => setTimeout(resolve, 2000 + Math.random() * 2000)),
\* then the set-up before the loop.
GenStart ==
    /\ ~Scheduling
    /\ gpc = "delay"
    /\ \E u \in USet :
          DelayBase + (u * DelaySpan) \div UDen \in DelayBase..(DelayBase + DelaySpan)
    /\ gpc' = "loop"
    /\ lastPitch' = MiddlePitch(ResolveScale(params.key))
    /\ currentTime' = 0
    /\ notes' = <<>>
    /\ i' = 0
    /\ UNCHANGED <<params, rand, midiData, uiVars, playVars>>

\* One iteration of the for loop. For an inherited `scale` the call
\* scale.indexOf(lastPitch) throws a TypeError, which rejects the promise.
GenIterate ==
    /\ gpc = "loop"
    /\ LoopGuard(i, params.duration)
    /\ LET scale == ResolveScale(params.key)
           settings == ResolveSettings(params.genre)
       IN  IF scale = Inherited
           THEN /\ gpc' = "rejected"
                /\ \E u \in USet : rand' = rand \o <<u>>
                /\ UNCHANGED <<params, i, currentTime, lastPitch, notes, midiData, uiVars, playVars>>
           ELSE \E d \in USet \X USet \X USet \X USet :
                   LET st == Iteration(scale, settings, params.creativity,
                                       [currentTime |-> currentTime,
                                        lastPitch |-> lastPitch,
                                        notes |-> notes], d)
                   IN  /\ currentTime' = st.currentTime
                       /\ lastPitch' = st.lastPitch
                       /\ notes' = st.notes
                       /\ i' = i + 1
                       /\ rand' = rand \o d
                       /\ UNCHANGED <<params, gpc, midiData, uiVars, playVars>>

\* The loop ends: return { notes, tempo, key, genre }.
GenReturn ==
    /\ gpc = "loop"
    /\ ~LoopGuard(i, params.duration)
    /\ gpc' = "returned"
    /\ UNCHANGED <<params, i, currentTime, lastPitch, notes, rand, midiData, uiVars, playVars>>

NextGen == GenStart \/ GenIterate \/ GenReturn

SpecGen == InitGen /\ [][NextGen]_vars
SpecGenAny == InitGenAny /\ [][NextGen]_vars
\* generateMelody's loop as a function of the parameters and of the
\* Math.random() results r it consumes, four a note.
RECURSIVE GenFold(_, _, _, _, _)
GenFold(scale, settings, c, st, r) ==
    IF Len(r) < 4 THEN st
    ELSE GenFold(scale, settings, c,
                 Iteration(scale, settings, c, st, SubSeq(r, 1, 4)),
                 SubSeq(r, 5, Len(r)))

GenerateWith(p, r) ==
    GenFold(ResolveScale(p.key), ResolveSettings(p.genre), p.creativity,
            [currentTime |-> 0,
             lastPitch |-> MiddlePitch(ResolveScale(p.key)),
             notes |-> <<>>], r).notes

\* ---------------------------------------------------------- renderer
\* The audio clock counts ClockPerSecond units a second. A note time of one
\* beat is scheduled as half a second: note.time * 0.5, note.duration * 0.5.
ClockPerSecond == 2 * TicksPerBeat

HalfSpeed(ticks) == (ticks * ClockPerSecond) \div (2 * TicksPerBeat)

\* typeMap[genre] || 'sine'; a value that is no OscillatorType (an inherited
\* member) is ignored by the oscillator.type setter, which leaves 'sine'.
getOscillatorType(genre) ==
    CASE genre \in {"classical", "ambient", "minimalist"} -> "sine"
      [] genre \in {"jazz", "baroque"} -> "triangle"
      [] genre = "electronic" -> "square"
      [] OTHER -> "sine"

\* if (!audioElement) return
NoTargetNever(audioElement) == FALSE

NoTarget(audioElement) == audioElement = NoElement

\* A playMIDI invocation: pc is "returned" (no target), "resuming" (awaiting
\* audioContext.resume()), "scheduling" (in the forEach, at note k),
\* "fulfilled" or "rejected"; failedAt is the note whose scheduling threw, 0
\* for none, NoContext when it was new AudioContext() or resume() that
\* failed; t0 is audioContext.currentTime as the forEach reads it; cleanupAt
\* is when the final setTimeout is due, finished whether it has logged
\* 'Playback finished'.
NoContext == 0 - 1

Call(pc, melody, ctx) ==
    [pc |-> pc, melody |-> melody, ctx |-> ctx, k |-> 1, failedAt |-> 0,
     t0 |-> now, cleanupAt |-> 0, finished |-> FALSE]

\* catch (error) { console.error(...); throw error }: the promise of the
\* invocation is rejected, with what failed recorded in failedAt.
Swallow(call, at) == [call EXCEPT !.pc = "fulfilled", !.failedAt = at]

Rethrow(call, at) == [call EXCEPT !.pc = "rejected", !.failedAt = at]

\* A synchronous section of playMIDI, or generateMelody's loop, is running:
\* no other handler runs.
Busy == gpc = "loop" \/ Scheduling

\* Math.max(...melody.notes.map(note => note.time + note.duration))
RECURSIVE MaxEnd(_)
MaxEnd(ns) ==
    IF Len(ns) = 1 THEN ns[1].time + ns[1].duration
    ELSE Max(ns[1].time + ns[1].duration, MaxEnd(Tail(ns)))

\* The delay of the final setTimeout: totalDuration * 1000 + 1000 ms; with no
\* note Math.max() is -Infinity and the timer is due at once.
CleanupDelay(ns) ==
    IF ns = <<>> THEN 0 ELSE HalfSpeed(MaxEnd(ns)) + ClockPerSecond

\* playMIDI(melody, audioElement) up to its first await or the forEach.
\* new AudioContext() throws, or gives a suspended or a running context.
PlayMIDI(melody, audioElement) ==
    IF NoTarget(audioElement)
    THEN /\ calls' = Append(calls, Call("returned", melody, 0))
         /\ UNCHANGED <<contexts, errorLog>>
    ELSE \E outcome \in {"throws", "suspended", "running"} :
            IF outcome = "throws"
            THEN /\ calls' = Append(calls, Rethrow(Call("scheduling", melody, 0), NoContext))
                 /\ errorLog' = errorLog + 1
                 /\ UNCHANGED contexts
            ELSE /\ contexts' = Append(contexts, [state |-> outcome])
                 /\ calls' = Append(calls,
                        Call(IF outcome = "suspended" THEN "resuming" ELSE "scheduling",
                             melody, Len(contexts) + 1))
                 /\ UNCHANGED errorLog

\* handlePlayPause, on a click of the Play/Pause button.
HandlePlayPause ==
    /\ ~Busy
    /\ IF currentMelody = NoMelody
       THEN UNCHANGED <<isPlaying, audioPaused, calls, contexts, errorLog>>
       ELSE IF isPlaying
            THEN \* audioRef.current?.pause()
                 /\ audioPaused' = (audioRef = AudioElement \/ audioPaused)
                 /\ isPlaying' = FALSE
                 /\ UNCHANGED <<calls, contexts, errorLog>>
            ELSE \* playMIDI never calls audioElement.play()
                 /\ Len(calls) < MaxPlays
                 /\ PlayMIDI(currentMelody, audioRef)
                 /\ isPlaying' = TRUE
                 /\ UNCHANGED audioPaused
    /\ UNCHANGED <<genVars, midiData, uiVars, currentMelody, audioRef, voices, now>>

\* The 'ended' listener the component's effect puts on the audio element:
\* handleEnded = () => setIsPlaying(false). The event is fired when the
\* element plays to the end of its media, so never while it is paused.
HandleEnded ==
    /\ ~Busy
    /\ audioRef = AudioElement
    /\ ~audioPaused
    /\ isPlaying' = FALSE
    /\ UNCHANGED <<genVars, midiData, uiVars, currentMelody, audioRef, audioPaused,
                   calls, contexts, voices, errorLog, now>>

\* await audioContext.resume() settles: fulfilled, or rejected into the catch.
ResumeSettles(c) ==
    /\ ~Busy
    /\ calls[c].pc = "resuming"
    /\ \E ok \in BOOLEAN :
          IF ok
          THEN /\ contexts' = [contexts EXCEPT ![calls[c].ctx].state = "running"]
               /\ calls' = [calls EXCEPT ![c].pc = "scheduling", ![c].t0 = now]
               /\ UNCHANGED errorLog
          ELSE /\ calls' = [calls EXCEPT ![c] = Rethrow(@, NoContext)]
               /\ errorLog' = errorLog + 1
               /\ UNCHANGED contexts
    /\ UNCHANGED <<genVars, midiData, uiVars, currentMelody, isPlaying, audioRef, audioPaused, voices, now>>

\* The oscillator of note k, were notes played at their written speed.
VoiceFullSpeed(c, k, note, genre, t0) ==
    [call |-> c, note |-> k, type |-> getOscillatorType(genre),
     start |-> t0 + 2 * HalfSpeed(note.time),
     stop |-> t0 + 2 * HalfSpeed(note.time) + 2 * HalfSpeed(note.duration)]

\* The oscillator of note k: started at startTime, stopped at startTime +
\* noteDuration.
Voice(c, k, note, genre, t0) ==
    [call |-> c, note |-> k, type |-> getOscillatorType(genre),
     start |-> t0 + HalfSpeed(note.time),
     stop |-> t0 + HalfSpeed(note.time) + HalfSpeed(note.duration)]

\* One pass of the forEach callback: the oscillator is created, connected,
\* started and stopped, or one of these calls throws and the catch logs the
\* error and rethrows it, which rejects the promise.
ScheduleNote(c) ==
    /\ calls[c].pc = "scheduling"
    /\ calls[c].k <= Len(calls[c].melody.notes)
    /\ \E ok \in BOOLEAN :
          IF ok
          THEN /\ voices' = Append(voices,
                      Voice(c, calls[c].k, calls[c].melody.notes[calls[c].k],
                            calls[c].melody.genre, calls[c].t0))
               /\ calls' = [calls EXCEPT ![c].k = @ + 1]
               /\ UNCHANGED errorLog
          ELSE /\ calls' = [calls EXCEPT ![c] = Rethrow(@, calls[c].k)]
               /\ errorLog' = errorLog + 1
               /\ UNCHANGED voices
    /\ UNCHANGED <<genVars, midiData, uiVars, currentMelody, isPlaying, audioRef, audioPaused, contexts, now>>

\* After the forEach: the final setTimeout is set and the promise fulfilled.
FinishSchedule(c) ==
    /\ calls[c].pc = "scheduling"
    /\ calls[c].k > Len(calls[c].melody.notes)
    /\ calls' = [calls EXCEPT ![c].pc = "fulfilled",
                              ![c].cleanupAt = now + CleanupDelay(calls[c].melody.notes)]
    /\ UNCHANGED <<genVars, midiData, uiVars, currentMelody, isPlaying, audioRef, audioPaused, contexts,
                   voices, errorLog, now>>

TimerDue(c) ==
    calls[c].pc = "fulfilled" /\ ~calls[c].finished /\ now >= calls[c].cleanupAt

\* The final setTimeout's callback, were it to tell the component.
PlaybackFinishedResets(c) ==
    /\ ~Busy
    /\ calls[c].pc = "fulfilled" /\ ~calls[c].finished /\ now >= calls[c].cleanupAt
    /\ calls' = [calls EXCEPT ![c].finished = TRUE]
    /\ isPlaying' = FALSE
    /\ UNCHANGED <<genVars, midiData, uiVars, currentMelody, audioRef, audioPaused,
                   contexts, voices, errorLog, now>>

\* The final setTimeout's callback: console.log('Playback finished').
PlaybackFinished(c) ==
    /\ ~Busy
    /\ TimerDue(c)
    /\ calls' = [calls EXCEPT ![c].finished = TRUE]
    /\ UNCHANGED <<genVars, midiData, uiVars, currentMelody, isPlaying, audioRef, audioPaused, contexts,
                   voices, errorLog, now>>

\* The times at which something is due: a voice starts or stops, a timer fires.
EventTimes ==
    {voices[v].start : v \in 1..Len(voices)}
        \cup {voices[v].stop : v \in 1..Len(voices)}
        \cup {calls[c].cleanupAt : c \in {d \in 1..Len(calls) : calls[d].pc = "fulfilled"}}

\* Time passes, up to the next time something is due.
AdvanceClock ==
    /\ ~Busy
    /\ \A c \in 1..Len(calls) : ~TimerDue(c)
    /\ \E t \in EventTimes :
          /\ t > now
          /\ \A e \in EventTimes : ~(now < e /\ e < t)
          /\ now' = t
    /\ UNCHANGED <<genVars, midiData, uiVars, currentMelody, isPlaying, audioRef, audioPaused, calls,
                   contexts, voices, errorLog>>

\* A voice is heard from its start time to its stop time, while its context runs.
Pending(v) == now < voices[v].start
Sounding(v) ==
    /\ voices[v].start <= now
    /\ now < voices[v].stop
    /\ contexts[calls[voices[v].call].ctx].state = "running"

\* Melodies to play: generateMelody's results for these parameters and draws.
PlayInputs == {<<"ambient", 5, "Am">>, <<"electronic", 10, "Em">>}

PlayDraws ==
    {<<>>,
     <<0, UDen - 1, 0, UDen - 1>>,
     <<UDen - 1, 0, 0, 0,  0, 0, UDen - 1, UDen - 1>>}

\* The state in which generateMelody(p) has returned after the draws r and
\* the component holds the melody (or, with held false, holds none), and
\* audioRef.current is target.
InitPlayWith(p, r, held, target) ==
    LET st == GenFold(ResolveScale(p.key), ResolveSettings(p.genre), p.creativity,
                      [currentTime |-> 0,
                       lastPitch |-> MiddlePitch(ResolveScale(p.key)),
                       notes |-> <<>>], r)
    IN  /\ UiIdle
        /\ params = p
        /\ gpc = "returned"
        /\ notes = st.notes
        /\ i = Len(st.notes)
        /\ currentTime = st.currentTime
        /\ lastPitch = st.lastPitch
        /\ rand = r
        /\ midiData = <<>>
        /\ currentMelody =
              IF held
              THEN [notes |-> st.notes, tempo |-> p.tempo, key |-> p.key,
                    genre |-> p.genre]
              ELSE NoMelody
        /\ isPlaying = FALSE
        /\ audioRef = target
        /\ audioPaused = TRUE
        /\ calls = <<>>
        /\ contexts = <<>>
        /\ voices = <<>>
        /\ errorLog = 0
        /\ now = 0

\* The duration dn/DurDen is one for which the loop ends after Len(r)/4 notes.
InitPlay ==
    \E t \in PlayInputs, r \in PlayDraws, dn \in 0..DurDen, held \in BOOLEAN,
       target \in {AudioElement, NoElement} :
        /\ ~LoopGuard(Len(r) \div 4, dn)
        /\ r = <<>> \/ LoopGuard((Len(r) \div 4) - 1, dn)
        /\ InitPlayWith(Params(t[1], t[2], t[3], dn), r, held, target)

NextPlay ==
    \/ HandlePlayPause
    \/ \E c \in 1..Len(calls) : ResumeSettles(c)
    \/ \E c \in 1..Len(calls) : ScheduleNote(c)
    \/ \E c \in 1..Len(calls) : FinishSchedule(c)
    \/ \E c \in 1..Len(calls) : PlaybackFinished(c)
    \/ AdvanceClock

SpecPlay == InitPlay /\ [][NextPlay]_vars

\* ----------------------------------------------------------- encoder
\* "MThd", header length 6, format 0, one track, 96 ticks per quarter note.
header ==
    <<77, 84, 104, 100,  0, 0, 0, 6,  0, 0,  0, 1,  0, 96>>

\* "MTrk", declared track length 0x20, end of track.
trackData ==
    <<77, 84, 114, 107,  0, 0, 0, 32,  0, 255, 47, 0>>

\* A variable-length note count after the header would make the bytes depend
\* on the melody.
createSimpleMIDIWithNotes(melody) ==
    header \o trackData \o [j \in 1..Len(melody.notes) |-> melody.notes[j].pitch]

\* The track block left out.
createSimpleMIDIHeaderOnly(melody) == header

\* result.set(header, 0); result.set(trackData, header.length)
createSimpleMIDI(melody) == header \o trackData

\* return { notes, tempo, key, genre }
Melody == [notes |-> notes, tempo |-> params.tempo, key |-> params.key,
           genre |-> params.genre]

\* downloadMIDI(melody, filename), on the melody generateMelody returned.
DownloadMIDI ==
    /\ gpc = "returned"
    /\ midiData' = createSimpleMIDI(Melody)
    /\ UNCHANGED <<genVars, uiVars, playVars>>

\* Melodies of at most half a bar, to be encoded.
InitEnc ==
    \E t \in DeclaredInputs, dn \in {d \in DurationInputs : 2 * d <= DurDen} :
        InitLoopState(Params(t[1], t[2], t[3], dn))

NextEnc == NextGen \/ DownloadMIDI

SpecEnc == InitEnc /\ [][NextEnc]_vars

\* --------------------------------------------------------- component
\* MusicGenerator: the Generate and the Play/Pause buttons over one
\* generateMelody at a time and the playMIDI invocations. The generator's
\* delay and the 500 ms timer are not measured on the audio clock: a timer
\* fires at any moment no synchronous section is running.
MaxGenerates == 2

\* What the controls hold at a click of Generate. The duration slider gives 8
\* to 64 bars; melodies are kept to a single note here.
UIInputs == {Params(t[1], t[2], t[3], 1) : t \in PlayInputs}

\* <Button onClick={handleGenerate} disabled={isGenerating}>
GenerateDisabled == isGenerating

\* handleGenerate up to its await: setIsGenerating(true) and the call of
\* generateMelody with the controls' values.
HandleGenerate ==
    /\ ~Busy
    /\ ~GenerateDisabled
    /\ generateCalls < MaxGenerates
    /\ isGenerating' = TRUE
    /\ generateCalls' = generateCalls + 1
    /\ unresolved' = unresolved + 1
    /\ \E p \in UIInputs : params' = p
    /\ gpc' = "delay"
    /\ i' = 0
    /\ currentTime' = 0
    /\ lastPitch' = NaN
    /\ notes' = <<>>
    /\ rand' = <<>>
    /\ UNCHANGED <<midiData, pendingMelody, playVars>>

\* handleGenerate after its await: generateMelody's promise is fulfilled, and
\* setTimeout(..., 500) is set for the melody. (The catch branch needs a
\* rejected promise, which the keys and genres of the selects never give.)
GenerateResolved ==
    /\ ~Busy
    /\ gpc = "returned"
    /\ unresolved > 0
    /\ unresolved' = unresolved - 1
    /\ pendingMelody' = Melody
    /\ UNCHANGED <<genVars, midiData, isGenerating, generateCalls, playVars>>

\* The 500 ms timer's callback: setCurrentMelody(melody); setIsGenerating(false).
ShowMelody ==
    /\ ~Busy
    /\ pendingMelody # NoMelody
    /\ currentMelody' = pendingMelody
    /\ isGenerating' = FALSE
    /\ pendingMelody' = NoMelody
    /\ UNCHANGED <<genVars, midiData, generateCalls, unresolved, isPlaying, audioRef,
                   audioPaused,                   calls, contexts, voices, errorLog, now>>

\* The component as mounted: no melody, nothing generating or playing.
InitUI ==
    /\ UiIdle
    /\ params = Params("classical", 7, "C", 0)
    /\ gpc = "idle"
    /\ i = 0
    /\ currentTime = 0
    /\ lastPitch = NaN
    /\ notes = <<>>
    /\ rand = <<>>
    /\ midiData = <<>>
    /\ currentMelody = NoMelody
    /\ isPlaying = FALSE
    /\ audioRef = AudioElement
    /\ audioPaused = TRUE
    /\ calls = <<>>
    /\ contexts = <<>>
    /\ voices = <<>>
    /\ errorLog = 0
    /\ now = 0

NextUI ==
    \/ HandleGenerate
    \/ GenStart
    \/ GenIterate
    \/ GenReturn
    \/ GenerateResolved
    \/ ShowMelody
    \/ NextPlay

SpecUI == InitUI /\ [][NextUI]_vars

\* ------------------------------------------------------------ claims
\* a === b and a <= b of JavaScript numbers: false when either is NaN.
JsEq(a, b) == ~IsNaN(a) /\ ~IsNaN(b) /\ a = b
JsLe(a, b) == ~IsNaN(a) /\ ~IsNaN(b) /\ a <= b

ScaleOf(key) ==
    IF key \in DOMAIN scalePatterns THEN scalePatterns[key] ELSE scalePatterns["C"]

ScaleValues(key) == {ScaleOf(key)[j] : j \in 1..Len(ScaleOf(key))}

Recognized(p) ==
    [p EXCEPT !.genre = IF @ \in DOMAIN genreSettings THEN @ ELSE "classical",
              !.key = IF @ \in DOMAIN scalePatterns THEN @ ELSE "C"]

\* C5: with a genre outside the genre table the notes are those genre
\* "classical" gives from the same random draws, with a key outside the scale
\* table those key "C" gives, and no error is raised.
C5_UnknownFallsBack ==
    /\ gpc # "rejected"
    /\ gpc \in {"loop", "returned"} => notes = GenerateWith(Recognized(params), rand)
\* C6 as stated: the buffer is 32 bytes, a 14-byte header and an 18-byte track
\* block, whatever the sequence.
C6_Buffer32 ==
    midiData # <<>> =>
        /\ Len(midiData) = 32
        /\ Len(header) = 14
        /\ Len(trackData) = 18

\* C6 amended: the buffer is 26 bytes, the 14-byte header followed by the
\* 12-byte track block, whatever the sequence.
C6_Buffer26 ==
    midiData # <<>> =>
        /\ Len(midiData) = 26
        /\ SubSeq(midiData, 1, 14) = header
        /\ SubSeq(midiData, 15, 26) = trackData

C6_Witness ==
    /\ midiData # <<>>
    /\ Len(notes) = 2

\* C7: the encoded bytes do not depend on the sequence: every buffer equals
\* the one the empty sequence encodes to.
C7_ContentIndependent ==
    midiData # <<>> =>
        midiData = createSimpleMIDI([notes |-> <<>>, tempo |-> 0, key |-> "", genre |-> ""])

C7_Witness ==
    /\ midiData # <<>>
    /\ Len(notes) = 2
    /\ notes[1].pitch # notes[2].pitch
    /\ params.genre = "ambient"
\* C8: with no output target playMIDI creates no audio context, schedules no
\* voice and does not fail, whatever the sequence.
C8_NullTargetNoOp ==
    audioRef = NoElement =>
        /\ contexts = <<>>
        /\ voices = <<>>
        /\ errorLog = 0
        /\ \A c \in 1..Len(calls) : calls[c].pc = "returned"

C8_Witness ==
    /\ audioRef = NoElement
    /\ Len(calls) >= 1
    /\ Len(calls[1].melody.notes) = 2

\* The voice playMIDI invocation c scheduled for its note n, if any.
HasVoice(c, n) ==
    \E v \in 1..Len(voices) : voices[v].call = c /\ voices[v].note = n

\* C9 as stated: when scheduling fails for one note, playMIDI does not fail and
\* every other note of the sequence still gets its voice.
C9_FailureIsolated ==
    \A c \in 1..Len(calls) :
        calls[c].failedAt > 0 =>
            /\ calls[c].pc # "rejected"
            /\ calls[c].pc = "fulfilled" =>
                  \A n \in 1..Len(calls[c].melody.notes) :
                      n # calls[c].failedAt => HasVoice(c, n)

\* C10 as stated: once playback is stopped (isPlaying is false again) no voice
\* is still to start and none is sounding.
C10_PauseStopsVoices ==
    ~isPlaying => \A v \in 1..Len(voices) : ~Pending(v) /\ ~Sounding(v)

\* The voices of invocation c have all reached their stop time.
AllStopped(c) ==
    \A v \in 1..Len(voices) : voices[v].call = c => now >= voices[v].stop

\* C11 as stated: the audio context of an invocation is closed by the time its
\* final timer has run, which is after the stop time of its last voice, and
\* whenever playback has been stopped by a click; a context is never left
\* running once its invocation is over.
C11_BusTornDown ==
    \A c \in 1..Len(calls) :
        (calls[c].ctx > 0 /\ (calls[c].finished \/ ~isPlaying)) =>
            contexts[calls[c].ctx].state = "closed"

\* The invocations in which something failed inside the try block.
Failed == {c \in 1..Len(calls) : calls[c].failedAt # 0}

\* C12: an invocation of playMIDI in which the context or the scheduling of a
\* note failed is rejected, never fulfilled; each such failure is logged
\* exactly once; and the failed invocation is not run again: it has a voice
\* for the notes before the failing one, one each, and for no other.
C12_FailureRethrownOnce ==
    /\ \A c \in Failed : calls[c].pc = "rejected"
    /\ \A c \in 1..Len(calls) : calls[c].pc = "rejected" => c \in Failed
    /\ errorLog = Cardinality(Failed)
    /\ \A c \in Failed :
          /\ \A v \in 1..Len(voices) :
                voices[v].call = c =>
                    /\ voices[v].note < calls[c].failedAt
                    /\ \A w \in 1..Len(voices) :
                          (voices[w].call = c /\ voices[w].note = voices[v].note) => w = v
          /\ Cardinality({d \in 1..Len(calls) : calls[d].ctx = calls[c].ctx}) <= 1
                \/ calls[c].ctx = 0

\* Two failures have happened: one invocation got no context, another failed
\* at its second note, after the first got its voice.
C12_Witness ==
    \E c, d \in Failed :
        /\ calls[c].failedAt = NoContext
        /\ calls[d].failedAt = 2
        /\ HasVoice(d, 1)
        /\ errorLog = 2

\* The voices that invocation c has scheduled for its note n.
VoicesOf(c, n) ==
    {v \in 1..Len(voices) : voices[v].call = c /\ voices[v].note = n}

\* C13: an invocation that went through without a failure has exactly one
\* voice per note; the voice of note n starts half the note's time (in beats,
\* taken as seconds) after t0, the audio clock when the notes are scheduled,
\* and stops half the note's duration after its start, which is later.
C13_OneVoicePerNote ==
    \A c \in 1..Len(calls) :
        (calls[c].pc = "fulfilled" /\ calls[c].failedAt = 0) =>
            \A n \in 1..Len(calls[c].melody.notes) :
                /\ Cardinality(VoicesOf(c, n)) = 1
                /\ \A v \in VoicesOf(c, n) :
                      LET note == calls[c].melody.notes[n]
                      IN  /\ 2 * TicksPerBeat * (voices[v].start - calls[c].t0)
                                = ClockPerSecond * note.time
                          /\ 2 * TicksPerBeat * (voices[v].stop - voices[v].start)
                                = ClockPerSecond * note.duration
                          /\ voices[v].stop > voices[v].start

\* A second playback, begun when the audio clock was no longer at 0, has
\* scheduled both notes of a melody, the second one later than the first.
C13_Witness ==
    \E c \in 1..Len(calls) :
        /\ calls[c].pc = "fulfilled"
        /\ calls[c].failedAt = 0
        /\ calls[c].t0 > 0
        /\ Len(calls[c].melody.notes) = 2
        /\ \E v \in VoicesOf(c, 2) : voices[v].start > calls[c].t0

\* The playbacks with a voice that has not reached its stop time yet.
Unfinished ==
    {c \in 1..Len(calls) :
        \E v \in 1..Len(voices) : voices[v].call = c /\ now < voices[v].stop}

\* The first half of C14: handleGenerate never awaits two generateMelody
\* calls at once.
OneGeneration == unresolved <= 1

\* The second half of C14: no two playbacks have unfinished voices at once.
OnePlayback == Cardinality(Unfinished) <= 1

\* C14 as stated: whatever is clicked, at most one generateMelody call is
\* unresolved and at most one playback has voices that have not all stopped.
C14_OneInFlight == OneGeneration /\ OnePlayback

\* Of note j of the loop: the Math.random() results it drew for its step and
\* for its octave, the octave added to it, and the scale index it was given.
StepDraw(j) == rand[4 * (j - 1) + 1]
JumpOf(j) == OctaveJump(rand[4 * (j - 1) + 2])
IndexOfNote(j) == IndexOf(ScaleOf(params.key), notes[j].pitch - JumpOf(j))
StepOf(j) ==
    PitchVariation(StepDraw(j), ResolveSettings(params.genre).jumpRange,
                   params.creativity)

\* The note the loop has just pushed, when it has one before it. Notes and
\* draws are only ever appended, so what holds of each note when it is the
\* latest holds of it from then on.
Latest == IF Len(notes) >= 2 THEN {Len(notes)} ELSE {}

\* C15: the scale index of a note is the clamped sum of its pitchVariation and
\* of a base index, which is the place in the scale of the previous note's
\* pitch as emitted, octave included: 0 when that pitch is no value of the
\* scale, and 7 when it is scale[0] + 12, which is scale[7].
C15_BaseIndex ==
    \A j \in Latest :
        LET scale == ScaleOf(params.key)
            prev == notes[j - 1].pitch
        IN  /\ prev \notin ScaleValues(params.key) =>
                  /\ JumpOf(j - 1) # 0
                  /\ IndexOfNote(j) = Max(0, Min(7, 0 + StepOf(j)))
            /\ \A k \in 0..7 :
                  prev = scale[k + 1] =>
                      IndexOfNote(j) = Max(0, Min(7, k + StepOf(j)))
            /\ (JumpOf(j - 1) # 0 /\ prev = scale[1] + OctaveSemitones) =>
                  /\ IndexOfNote(j - 1) = 0
                  /\ IndexOfNote(j) = Max(0, Min(7, 7 + StepOf(j)))

\* A note raised by an octave from index 0 is followed by a note near the top
\* of the scale, and a note raised out of the scale by one counted from 0.
C15_Witness ==
    /\ \E j \in 2..Len(notes) :
          /\ JumpOf(j - 1) # 0
          /\ IndexOfNote(j - 1) = 0
          /\ IndexOfNote(j) >= 5
    /\ \E j \in 2..Len(notes) :
          /\ JumpOf(j - 1) # 0
          /\ notes[j - 1].pitch \notin ScaleValues(params.key)
          /\ IndexOfNote(j) = Max(0, StepOf(j))
          /\ StepOf(j) > 0

\* The requests in which the claim has every step be -1 or 0.
SmallSteps ==
    \/ params.genre = "minimalist" /\ params.creativity \in 1..10
    \/ params.genre = "ambient" /\ params.creativity \in 1..5

\* C16: with creativity in (0, 1] the pitchVariation of every note is an
\* integer from -jumpRange to jumpRange - 1; for genre minimalist, and for
\* ambient with creativity at most 0.5, it is -1 or 0 and no note has a
\* higher scale index than the note before it, unless that note was raised
\* by an octave from index 0.
\* The range is checked of every genre, creativity in tenths and value of
\* Math.random() before the loop starts, and of the steps the loop takes.
C16_StepRange ==
    /\ gpc = "delay" =>
          \A g \in DOMAIN genreSettings, c \in 1..10, u \in 0..(UDen - 1) :
              LET jumpRange == genreSettings[g].jumpRange
                  step == PitchVariation(u, jumpRange, c)
              IN  /\ step \in (0 - jumpRange)..(jumpRange - 1)
                  /\ (g = "minimalist" \/ (g = "ambient" /\ c <= 5)) =>
                        step \in {0 - 1, 0}
    /\ params.creativity \in 1..10 =>
          \A j \in 1..Len(notes) :
              LET jumpRange == ResolveSettings(params.genre).jumpRange
              IN  StepOf(j) \in (0 - jumpRange)..(jumpRange - 1)
    /\ SmallSteps =>
          /\ \A j \in 1..Len(notes) : StepOf(j) \in {0 - 1, 0}
          /\ \A j \in 2..Len(notes) :
                \/ IndexOfNote(j) <= IndexOfNote(j - 1)
                \/ JumpOf(j - 1) # 0 /\ IndexOfNote(j - 1) = 0

\* A minimalist melody in which a note raised out of the scale is followed
\* by one at index 0, itself raised, and that one by a note higher up.
C16_Witness ==
    /\ params.genre = "minimalist"
    /\ \E j \in 3..Len(notes) :
          /\ notes[j - 2].pitch \notin ScaleValues(params.key)
          /\ IndexOfNote(j - 1) = 0
          /\ JumpOf(j - 1) # 0
          /\ IndexOfNote(j) > 0
          /\ StepOf(j) = 0 - 1

\* C17: a click of Play with a melody held sets isPlaying, and nothing but a
\* click of Play/Pause clears it again: the audio element stays paused, so its
\* 'ended' listener is never called, and neither the voices reaching their
\* stop times nor the final timer touch isPlaying.
C17_StaysPlaying ==
    /\ [](~ENABLED HandleEnded)
    /\ [][(~isPlaying /\ currentMelody # NoMelody /\ HandlePlayPause) => isPlaying']_vars
    /\ [][(isPlaying /\ ~isPlaying') => HandlePlayPause]_vars

\* A playback is over, its voice stopped and its final timer run, and
\* isPlaying is still set.
C17_Witness ==
    /\ isPlaying
    /\ \E c \in 1..Len(calls) :
          /\ calls[c].finished
          /\ HasVoice(c, 1)
          /\ AllStopped(c)
====
